---- MODULE Spec2Model ----
(***************************************************************************)
(* calcast: a precedence-climbing recursive-descent parser for arithmetic  *)
(* expressions (parse.go), its eager parse-and-evaluate twin               *)
(* (evalparse.go) and the expression model num / unary / binary (expr.go). *)
(*                                                                         *)
(* The input reader is modelled by the sequence of tokens text/scanner     *)
(* delivers for it (white space is skipped by the scanner).  float64       *)
(* values are modelled by exact rationals <<n, d>> in lowest terms, d > 0; *)
(* both modes apply the same operations to the same operands in the same   *)
(* order, so rounding, which the rationals leave out, is the same in both. *)
(***************************************************************************)
EXTENDS Integers, Sequences, FiniteSets, TLC

(***************************************************************************)
(* Bounds                                                                  *)
(***************************************************************************)
\* longest arbitrary token sequence fed to the parsers (specification Spec)
MaxLen == 4
\* longest grammar-generated expression, in tokens (specification SpecExpr)
MaxExprLen == 6

(***************************************************************************)
(* float64 values as rationals                                             *)
(***************************************************************************)
Abs(i) == IF i < 0 THEN -i ELSE i

RECURSIVE GCD(_, _)
GCD(a, b) == IF b = 0 THEN a ELSE GCD(b, a % b)

Rat(n, d) ==
  LET s == IF d < 0 THEN -1 ELSE 1
      g == GCD(Abs(n), Abs(d))
  IN  <<(s * n) \div g, (s * d) \div g>>

Zero == <<0, 1>>
RAdd(x, y) == Rat(x[1] * y[2] + y[1] * x[2], x[2] * y[2])
RSub(x, y) == Rat(x[1] * y[2] - y[1] * x[2], x[2] * y[2])
RMul(x, y) == Rat(x[1] * y[1], x[2] * y[2])
RDiv(x, y) == Rat(x[1] * y[2], x[2] * y[1])
RNeg(x)    == <<-x[1], x[2]>>

(***************************************************************************)
(* Tokens: what lex.scan.Scan() returns together with lex.scan.TokenText().*)
(* tok is the rune class (scanner.EOF, scanner.Ident, scanner.Int,         *)
(* scanner.Float) or the rune itself; for a number, text is the numeral,   *)
(* held as the rational it denotes, and hex marks a numeral with a 0x      *)
(* prefix and no exponent, which the scanner accepts as an Int.            *)
(***************************************************************************)
Sym(c)      == [tok |-> c, text |-> Zero, hex |-> FALSE]
IntTok(n)   == [tok |-> "Int", text |-> <<n, 1>>, hex |-> FALSE]
FloatTok(v) == [tok |-> "Float", text |-> v, hex |-> FALSE]
HexTok      == [tok |-> "Int", text |-> <<31, 1>>, hex |-> TRUE]
IdentTok    == Sym("Ident")
EOF         == Sym("EOF")

\* errors are chains of messages, outermost wrapper first; nil is <<>>
NoErr == <<>>
Errorf(msg, at, cause) == <<[msg |-> msg, at |-> at]>> \o cause
IsNil(err) == err = <<>>

\* strconv.ParseFloat(text, 64): a hexadecimal mantissa needs a p exponent
ParseFloat(t) ==
  IF t.hex THEN [f |-> Zero, err |-> Errorf("invalid syntax", "", NoErr)]
  ELSE [f |-> t.text, err |-> NoErr]

(***************************************************************************)
(* lexer                                                                   *)
(***************************************************************************)
\* scanner.Scan: the next token of the source, EOF once it is exhausted
Scan(src, pos) == IF pos <= Len(src) THEN src[pos] ELSE EOF

\* new(lexer); lex.scan.Init(r): nothing scanned yet, token is the zero rune
NewLexer(src) == [src |-> src, pos |-> 0, token |-> Sym("NUL")]

\* lex.next()
next(lex) ==
  LET p == IF lex.pos <= Len(lex.src) THEN lex.pos + 1 ELSE lex.pos
  IN  [lex EXCEPT !.pos = p, !.token = Scan(lex.src, p)]

\* lex.String()
lexString(lex) ==
  CASE lex.token.tok = "EOF" -> "end of file"
    [] lex.token.tok = "Ident" -> "identifier"
    [] lex.token.tok \in {"Int", "Float"} -> "number"
    [] OTHER -> lex.token.tok

\* priority with the two levels exchanged
priorityInverted(op) ==
  CASE op.tok \in {"*", "/"} -> 1
    [] op.tok \in {"+", "-"} -> 2
    [] OTHER -> 0

\* priority with one level for all four operators
priorityOneLevel(op) ==
  CASE op.tok \in {"*", "/", "+", "-"} -> 1
    [] OTHER -> 0

priority(op) ==
  CASE op.tok \in {"*", "/"} -> 2
    [] op.tok \in {"+", "-"} -> 1
    [] OTHER -> 0

(***************************************************************************)
(* Expr: num, unary, binary; NilExpr is the nil interface value            *)
(***************************************************************************)
NilExpr == [k |-> "nil"]
num(f) == [k |-> "num", f |-> f]
unary(op, x) == [k |-> "unary", op |-> op, x |-> x]
binary(op, x, y) == [k |-> "binary", op |-> op, x |-> x, y |-> y]

\* Eval with binary.Eval evaluating its right operand before its left
RECURSIVE EvalRightFirst(_)
EvalRightFirst(e) ==
  CASE e.k = "num" -> [v |-> e.f, err |-> NoErr]
    [] e.k = "unary" ->
         LET x == EvalRightFirst(e.x) IN
         IF ~IsNil(x.err)
         THEN [v |-> Zero, err |-> Errorf("evaluation of operand x in unary failed", "", x.err)]
         ELSE CASE e.op = "+" -> [v |-> x.v, err |-> NoErr]
                [] e.op = "-" -> [v |-> RNeg(x.v), err |-> NoErr]
                [] OTHER -> [v |-> Zero, err |-> Errorf("unsupported unary operator", "", NoErr)]
    [] e.k = "binary" ->
         LET y == EvalRightFirst(e.y) IN
         IF ~IsNil(y.err)
         THEN [v |-> Zero, err |-> Errorf("evaluation of operand y in binary failed", "", y.err)]
         ELSE
         LET x == EvalRightFirst(e.x) IN
         IF ~IsNil(x.err)
         THEN [v |-> Zero, err |-> Errorf("evaluation of operand x in binary failed", "", x.err)]
         ELSE CASE e.op = "+" -> [v |-> RAdd(x.v, y.v), err |-> NoErr]
                [] e.op = "-" -> [v |-> RSub(x.v, y.v), err |-> NoErr]
                [] e.op = "*" -> [v |-> RMul(x.v, y.v), err |-> NoErr]
                [] e.op = "/" ->
                     IF y.v = Zero
                     THEN [v |-> Zero, err |-> Errorf("division by zero", "", NoErr)]
                     ELSE [v |-> RDiv(x.v, y.v), err |-> NoErr]
                [] OTHER -> [v |-> Zero, err |-> Errorf("unsupported binary operator", "", NoErr)]

\* Expr.Eval: (value, error); the value is 0 whenever the error is not nil
RECURSIVE Eval(_)
Eval(e) ==
  CASE e.k = "num" -> [v |-> e.f, err |-> NoErr]
    [] e.k = "unary" ->
         LET x == Eval(e.x) IN
         IF ~IsNil(x.err)
         THEN [v |-> Zero, err |-> Errorf("evaluation of operand x in unary failed", "", x.err)]
         ELSE CASE e.op = "+" -> [v |-> x.v, err |-> NoErr]
                [] e.op = "-" -> [v |-> RNeg(x.v), err |-> NoErr]
                [] OTHER -> [v |-> Zero, err |-> Errorf("unsupported unary operator", "", NoErr)]
    [] e.k = "binary" ->
         LET x == Eval(e.x) IN
         IF ~IsNil(x.err)
         THEN [v |-> Zero, err |-> Errorf("evaluation of operand x in binary failed", "", x.err)]
         ELSE
         LET y == Eval(e.y) IN
         IF ~IsNil(y.err)
         THEN [v |-> Zero, err |-> Errorf("evaluation of operand y in binary failed", "", y.err)]
         ELSE CASE e.op = "+" -> [v |-> RAdd(x.v, y.v), err |-> NoErr]
                [] e.op = "-" -> [v |-> RSub(x.v, y.v), err |-> NoErr]
                [] e.op = "*" -> [v |-> RMul(x.v, y.v), err |-> NoErr]
                [] e.op = "/" ->
                     IF y.v = Zero
                     THEN [v |-> Zero, err |-> Errorf("division by zero", "", NoErr)]
                     ELSE [v |-> RDiv(x.v, y.v), err |-> NoErr]
                [] OTHER -> [v |-> Zero, err |-> Errorf("unsupported binary operator", "", NoErr)]

\* Len with binary.Len forgetting the node itself
RECURSIVE ExprLenOperandsOnly(_)
ExprLenOperandsOnly(e) ==
  CASE e.k = "num" -> 1
    [] e.k = "unary" -> ExprLenOperandsOnly(e.x) + 1
    [] e.k = "binary" -> ExprLenOperandsOnly(e.x) + ExprLenOperandsOnly(e.y)

\* Expr.Len
RECURSIVE ExprLen(_)
ExprLen(e) ==
  CASE e.k = "num" -> 1
    [] e.k = "unary" -> ExprLen(e.x) + 1
    [] e.k = "binary" -> ExprLen(e.x) + ExprLen(e.y) + 1

\* fmt "%.2f": the nearest multiple of 1/100, ties to even
Round2(v) ==
  LET a == Abs(v[1]) * 100
      q == a \div v[2]
      r == a % v[2]
      up == (2 * r > v[2]) \/ (2 * r = v[2] /\ q % 2 = 1)
  IN  Rat(IF up THEN q + 1 ELSE q, 100)

\* Expr.String, as the tokens the scanner reads back from the text
RECURSIVE String(_)
String(e) ==
  CASE e.k = "num" ->
         IF e.f[1] < 0 THEN <<Sym("-"), FloatTok(Round2(e.f))>>
         ELSE <<FloatTok(Round2(e.f))>>
    [] e.k = "unary" -> <<Sym(e.op)>> \o String(e.x)
    [] e.k = "binary" -> String(e.x) \o <<Sym(e.op)>> \o String(e.y)

(***************************************************************************)
(* parse.go.  Every routine returns (Expr, error) and moves the lexer it   *)
(* was handed; a result carries the lexer as the routine left it.          *)
(***************************************************************************)
Ok(e, lex)       == [e |-> e, err |-> NoErr, lex |-> lex, panic |-> FALSE]
Fail(err, lex)   == [e |-> NilExpr, err |-> err, lex |-> lex, panic |-> FALSE]
\* a run-time panic unwinds every frame: nothing is returned
Panicked(lex)    == [e |-> NilExpr, err |-> NoErr, lex |-> lex, panic |-> TRUE]

RECURSIVE parseBinary(_, _)
RECURSIVE parseBinaryLevel(_, _, _)
RECURSIVE parseBinaryLoop(_, _, _, _)
RECURSIVE parseUnary(_)
RECURSIVE parsePrimary(_)

parseExpr(lex) == parseBinary(lex, 1)

\* the inner loop with the right operand parsed at prio instead of prio + 1
parseBinaryLevelSamePrio(lex, left, prio) ==
  IF priority(lex.token) # prio THEN Ok(left, lex)
  ELSE
    LET op == lex.token.tok
        r  == parseBinary(next(lex), prio)
    IN  IF ~IsNil(r.err)
        THEN Fail(Errorf("could not parse expression in unary", lexString(r.lex), r.err), r.lex)
        ELSE parseBinaryLevel(r.lex, binary(op, left, r.e), prio)

\* the inner loop folding with the operands exchanged: binary{op, right, left}
parseBinaryLevelSwapped(lex, left, prio) ==
  IF priority(lex.token) # prio THEN Ok(left, lex)
  ELSE
    LET op == lex.token.tok
        r  == parseBinary(next(lex), prio + 1)
    IN  IF ~IsNil(r.err)
        THEN Fail(Errorf("could not parse expression in unary", lexString(r.lex), r.err), r.lex)
        ELSE parseBinaryLevel(r.lex, binary(op, r.e, left), prio)

\* the inner loop reading op after lex.next() has consumed the operator
parseBinaryLevelOpAfterNext(lex, left, prio) ==
  IF priority(lex.token) # prio THEN Ok(left, lex)
  ELSE
    LET op == next(lex).token.tok
        r  == parseBinary(next(lex), prio + 1)
    IN  IF ~IsNil(r.err)
        THEN Fail(Errorf("could not parse expression in unary", lexString(r.lex), r.err), r.lex)
        ELSE parseBinaryLevel(r.lex, binary(op, left, r.e), prio)

\* the inner loop of parseBinary: for priority(lex.token) == prio { ... }
parseBinaryLevel(lex, left, prio) ==
  IF priority(lex.token) # prio THEN Ok(left, lex)
  ELSE
    LET op == lex.token.tok
        r  == parseBinary(next(lex), prio + 1)
    IN  IF ~IsNil(r.err)
        THEN Fail(Errorf("could not parse expression in unary", lexString(r.lex), r.err), r.lex)
        ELSE parseBinaryLevel(r.lex, binary(op, left, r.e), prio)

\* the outer loop of parseBinary: for prio := ...; prio >= prio0; prio-- { ... }
parseBinaryLoop(lex, left, prio, prio0) ==
  IF ~(prio >= prio0) THEN Ok(left, lex)
  ELSE
    LET r == parseBinaryLevel(lex, left, prio)
    IN  IF ~IsNil(r.err) THEN r
        ELSE parseBinaryLoop(r.lex, r.e, prio - 1, prio0)

parseBinary(lex, prio0) ==
  LET l == parseUnary(lex)
  IN  IF ~IsNil(l.err)
      THEN Fail(Errorf("could not parse expression in unary", lexString(l.lex), l.err), l.lex)
      ELSE parseBinaryLoop(l.lex, l.e, priority(l.lex.token), prio0)

\* parseUnary taking a whole product for the operand of a sign
parseUnaryOverProduct(lex) ==
  IF lex.token.tok = "+" \/ lex.token.tok = "-"
  THEN
    LET op == lex.token.tok
        r  == parseBinary(next(lex), 2)
    IN  IF ~IsNil(r.err)
        THEN Fail(Errorf("could not parse expression in unary", lexString(r.lex), r.err), r.lex)
        ELSE Ok(unary(op, r.e), r.lex)
  ELSE parsePrimary(lex)

\* parseUnary taking one sign only: the operand is parsed by parsePrimary
parseUnaryOneSign(lex) ==
  IF lex.token.tok = "+" \/ lex.token.tok = "-"
  THEN
    LET op == lex.token.tok
        r  == parsePrimary(next(lex))
    IN  IF ~IsNil(r.err)
        THEN Fail(Errorf("could not parse expression in unary", lexString(r.lex), r.err), r.lex)
        ELSE Ok(unary(op, r.e), r.lex)
  ELSE parsePrimary(lex)

parseUnary(lex) ==
  IF lex.token.tok = "+" \/ lex.token.tok = "-"
  THEN
    LET op == lex.token.tok
        r  == parseUnary(next(lex))
    IN  IF ~IsNil(r.err)
        THEN Fail(Errorf("could not parse expression in unary", lexString(r.lex), r.err), r.lex)
        ELSE Ok(unary(op, r.e), r.lex)
  ELSE parsePrimary(lex)

\* parsePrimary taking a group without looking for its ')'
parsePrimaryUnclosed(lex) ==
  CASE lex.token.tok \in {"Int", "Float"} ->
         LET p == ParseFloat(lex.token)
         IN  IF ~IsNil(p.err)
             THEN Fail(Errorf("could not parse the float number", lexString(lex), p.err), lex)
             ELSE Ok(num(p.f), next(lex))
    [] lex.token.tok = "(" ->
         LET r == parseExpr(next(lex))
         IN  IF ~IsNil(r.err)
             THEN Fail(Errorf("could not parse the symbol", lexString(r.lex), r.err), r.lex)
             ELSE IF r.lex.token.tok # ")"
             THEN Ok(r.e, r.lex)
             ELSE Ok(r.e, next(r.lex))
    [] OTHER -> Fail(Errorf("unexpected", lexString(lex), NoErr), lex)

\* parsePrimary taking a missing operand for 0 instead of failing
parsePrimaryDefaultZero(lex) ==
  CASE lex.token.tok \in {"Int", "Float"} ->
         LET p == ParseFloat(lex.token)
         IN  IF ~IsNil(p.err)
             THEN Fail(Errorf("could not parse the float number", lexString(lex), p.err), lex)
             ELSE Ok(num(p.f), next(lex))
    [] lex.token.tok = "(" ->
         LET r == parseExpr(next(lex))
         IN  IF ~IsNil(r.err)
             THEN Fail(Errorf("could not parse the symbol", lexString(r.lex), r.err), r.lex)
             ELSE IF r.lex.token.tok # ")"
             THEN Fail(Errorf("got, want ')'", lexString(r.lex), NoErr), r.lex)
             ELSE Ok(r.e, next(r.lex))
    [] OTHER -> Ok(num(Zero), lex)

parsePrimary(lex) ==
  CASE lex.token.tok \in {"Int", "Float"} ->
         LET p == ParseFloat(lex.token)
         IN  IF ~IsNil(p.err)
             THEN Fail(Errorf("could not parse the float number", lexString(lex), p.err), lex)
             ELSE Ok(num(p.f), next(lex))
    [] lex.token.tok = "(" ->
         LET r == parseExpr(next(lex))
         IN  IF ~IsNil(r.err)
             THEN Fail(Errorf("could not parse the symbol", lexString(r.lex), r.err), r.lex)
             ELSE IF r.lex.token.tok # ")"
             THEN Fail(Errorf("got, want ')'", lexString(r.lex), NoErr), r.lex)
             ELSE Ok(r.e, next(r.lex))
    [] OTHER -> Fail(Errorf("unexpected", lexString(lex), NoErr), lex)

\* Parse evaluating the tree and returning the evaluation error as its own
ParseEvaluating(r) ==
  LET lex == next(NewLexer(r))
      p   == parseExpr(lex)
  IN  IF ~IsNil(p.err)
      THEN Fail(Errorf("could not parse", lexString(p.lex), p.err), p.lex)
      ELSE IF p.lex.token.tok # "EOF"
      THEN Fail(Errorf("unexpected", lexString(p.lex), NoErr), p.lex)
      ELSE IF ~IsNil(Eval(p.e).err)
      THEN Fail(Errorf("could not parse", lexString(p.lex), Eval(p.e).err), p.lex)
      ELSE Ok(p.e, p.lex)

\* Parse without the check that the input is exhausted
ParseNoEOFCheck(r) ==
  LET lex == next(NewLexer(r))
      p   == parseExpr(lex)
  IN  IF ~IsNil(p.err)
      THEN Fail(Errorf("could not parse", lexString(p.lex), p.err), p.lex)
      ELSE Ok(p.e, p.lex)

Parse(r) ==
  LET lex == next(NewLexer(r))
      p   == parseExpr(lex)
  IN  IF ~IsNil(p.err)
      THEN Fail(Errorf("could not parse", lexString(p.lex), p.err), p.lex)
      ELSE IF p.lex.token.tok # "EOF"
      THEN Fail(Errorf("unexpected", lexString(p.lex), NoErr), p.lex)
      ELSE Ok(p.e, p.lex)

(***************************************************************************)
(* evalparse.go.  The value of a failed Eval is 0 and its error is         *)
(* dropped (leftEval, _ := left.Eval()).  Calling Eval on the nil Expr a   *)
(* failed routine returned is a nil dereference: a run-time panic.         *)
(***************************************************************************)
RECURSIVE evalparseBinary(_, _)
RECURSIVE evalparseBinaryLevel(_, _, _)
RECURSIVE evalparseBinaryLoop(_, _, _, _)
RECURSIVE evalparseUnary(_)
RECURSIVE evalparsePrimary(_)

evalparseExpr(lex) == evalparseBinary(lex, 1)

evalparseBinaryLevel(lex, left, prio) ==
  IF priority(lex.token) # prio THEN Ok(left, lex)
  ELSE
    LET op == lex.token.tok
        r  == evalparseBinary(next(lex), prio + 1)
    IN  IF r.panic THEN r
        ELSE IF ~IsNil(r.err)
        THEN Fail(Errorf("could not parse expression in unary", lexString(r.lex), r.err), r.lex)
        ELSE evalparseBinaryLevel(r.lex, binary(op, num(Eval(left).v), r.e), prio)

evalparseBinaryLoop(lex, left, prio, prio0) ==
  IF ~(prio >= prio0) THEN Ok(left, lex)
  ELSE
    LET r == evalparseBinaryLevel(lex, left, prio)
    IN  IF r.panic \/ ~IsNil(r.err) THEN r
        ELSE evalparseBinaryLoop(r.lex, r.e, prio - 1, prio0)

\* evalparseBinary returning the error of the Eval that collapses left
evalparseBinaryChecked(lex, prio0) ==
  LET l == evalparseUnary(lex)
  IN  IF l.panic THEN l
      ELSE IF ~IsNil(l.err)
      THEN Fail(Errorf("could not parse expression in unary", lexString(l.lex), l.err), l.lex)
      ELSE
        LET r == evalparseBinaryLoop(l.lex, l.e, priority(l.lex.token), prio0)
        IN  IF r.panic \/ ~IsNil(r.err) THEN r
            ELSE IF ~IsNil(Eval(r.e).err)
            THEN Fail(Errorf("could not parse expression in unary", lexString(r.lex), Eval(r.e).err),
                      r.lex)
            ELSE Ok(num(Eval(r.e).v), r.lex)

\* evalparseBinary returning the tree it folded (return left, nil)
evalparseBinaryUncollapsed(lex, prio0) ==
  LET l == evalparseUnary(lex)
  IN  IF l.panic THEN l
      ELSE IF ~IsNil(l.err)
      THEN Fail(Errorf("could not parse expression in unary", lexString(l.lex), l.err), l.lex)
      ELSE evalparseBinaryLoop(l.lex, l.e, priority(l.lex.token), prio0)

evalparseBinary(lex, prio0) ==
  LET l == evalparseUnary(lex)
  IN  IF l.panic THEN l
      ELSE IF ~IsNil(l.err)
      THEN Fail(Errorf("could not parse expression in unary", lexString(l.lex), l.err), l.lex)
      ELSE
        LET r == evalparseBinaryLoop(l.lex, l.e, priority(l.lex.token), prio0)
        IN  IF r.panic \/ ~IsNil(r.err) THEN r
            ELSE Ok(num(Eval(r.e).v), r.lex)

evalparseUnary(lex) ==
  IF lex.token.tok = "+" \/ lex.token.tok = "-"
  THEN
    LET op == lex.token.tok
        r  == evalparseUnary(next(lex))
    IN  IF r.panic THEN r
        ELSE IF ~IsNil(r.err)
        THEN Fail(Errorf("could not parse expression in unary", lexString(r.lex), r.err), r.lex)
        ELSE Ok(unary(op, num(Eval(r.e).v)), r.lex)
  ELSE evalparsePrimary(lex)

evalparsePrimary(lex) ==
  CASE lex.token.tok \in {"Int", "Float"} ->
         LET p == ParseFloat(lex.token)
         IN  IF ~IsNil(p.err)
             THEN Fail(Errorf("could not parse the float number", lexString(lex), p.err), lex)
             ELSE Ok(num(p.f), next(lex))
    [] lex.token.tok = "(" ->
         LET r == evalparseExpr(next(lex))
         IN  IF r.panic THEN r
             \* eEval, _ := e.Eval() runs before err is looked at
             ELSE IF r.e.k = "nil" THEN Panicked(r.lex)
             ELSE IF ~IsNil(r.err)
             THEN Fail(Errorf("could not parse the symbol", lexString(r.lex), r.err), r.lex)
             ELSE IF r.lex.token.tok # ")"
             THEN Fail(Errorf("got, want ')'", lexString(r.lex), NoErr), r.lex)
             ELSE Ok(num(Eval(r.e).v), next(r.lex))
    [] OTHER -> Fail(Errorf("unexpected", lexString(lex), NoErr), lex)

EvalParse(r) ==
  LET lex == next(NewLexer(r))
      p   == evalparseExpr(lex)
  IN  IF p.panic THEN p
      ELSE IF ~IsNil(p.err)
      THEN Fail(Errorf("could not parse", lexString(p.lex), p.err), p.lex)
      ELSE IF p.lex.token.tok # "EOF"
      THEN Fail(Errorf("unexpected", lexString(p.lex), NoErr), p.lex)
      ELSE Ok(p.e, p.lex)

(***************************************************************************)
(* Inputs                                                                  *)
(***************************************************************************)
Signs     == {"+", "-"}
Operators == {"+", "-", "*", "/"}

\* tokens of the arbitrary inputs: operators, parentheses, two numbers, an
\* identifier and a numeral strconv rejects
Alphabet ==
  {Sym(c) : c \in Operators \cup {"(", ")"}}
    \cup {IntTok(0), IntTok(1), IdentTok, HexTok}

\* number tokens of the grammar-generated inputs
Literals == {IntTok(0), IntTok(1), IntTok(2)}

SeqsUpTo(S, n) == UNION {[1..m -> S] : m \in 0..n}

\* the token sequences of exactly n tokens the grammar
\*   expr := expr OP expr | SIGN expr | NUMBER | '(' expr ')'
\* generates: the language of the parsers' grammar
RECURSIVE ExprsOfLen(_)
ExprsOfLen(n) ==
  IF n = 1 THEN {<<l>> : l \in Literals}
  ELSE
    {<<Sym(c)>> \o e : c \in Signs, e \in ExprsOfLen(n - 1)}
      \cup (IF n >= 3
            THEN {<<Sym("(")>> \o e \o <<Sym(")")>> : e \in ExprsOfLen(n - 2)}
            ELSE {})
      \cup UNION {{a \o <<Sym(c)>> \o b :
                     a \in ExprsOfLen(i), b \in ExprsOfLen(n - 1 - i), c \in Operators}
                  : i \in 1..(n - 2)}

Toks(s) == [i \in DOMAIN s |->
              IF s[i] \in Operators \cup {"(", ")"} THEN Sym(s[i])
              ELSE IF s[i] = "a" THEN IdentTok
              ELSE IF s[i] = "0.125" THEN FloatTok(<<1, 8>>)
              ELSE IntTok(CHOOSE n \in 0..9 : ToString(n) = s[i])]

\* the inputs the documentation works through
Examples ==
  { Toks(<<"2", "*", "1", "+", "2">>),
    Toks(<<"2", "+", "1", "*", "2">>),
    Toks(<<"1", "+", "2", "+", "3", "+", "4">>),
    Toks(<<"8", "-", "3", "-", "2">>),
    Toks(<<"8", "/", "4", "/", "2">>),
    Toks(<<"-", "-", "3">>),
    Toks(<<"-", "+", "3">>),
    Toks(<<"(", "1", "+", "2", ")", "*", "3">>),
    Toks(<<"8", "-", "(", "3", "-", "2", ")">>),
    Toks(<<"0.125", "+", "1">>),
    Toks(<<"1", "/", "0", "+", "1", "/", "0">>) }

GrammarInputs == UNION {ExprsOfLen(n) : n \in 1..MaxExprLen} \cup Examples
ArbitraryInputs == SeqsUpTo(Alphabet, MaxLen)

(***************************************************************************)
(* The program: one run hands the input to Parse, evaluates, sizes and     *)
(* prints the tree (main, printResult), reads the printed text back, and   *)
(* then hands the same input to EvalParse and evaluates what it returned   *)
(* (TestParseAndEvalPerformance, TestEvalParseAndEvalPerformance).         *)
(***************************************************************************)
VARIABLES input, pc, tree, treeVal, size, text, back, eager, eagerVal,
          procs, heap

vars == <<input, pc, tree, treeVal, size, text, back, eager, eagerVal, procs, heap>>

NoResult == Fail(NoErr, NewLexer(<<>>))
NoValue  == [v |-> Zero, err |-> NoErr]

InitWith(S) ==
  /\ input \in S
  /\ pc = "start"
  /\ tree = NoResult
  /\ treeVal = NoValue
  /\ size = 0
  /\ text = <<>>
  /\ back = NoResult
  /\ eager = NoResult
  /\ eagerVal = NoValue
  /\ procs = <<>>
  /\ heap = <<>>

Init == InitWith(ArbitraryInputs)
InitExpr == InitWith(GrammarInputs)

\* exp, err := Parse(reader)
CallParse ==
  /\ pc = "start"
  /\ tree' = Parse(input)
  /\ pc' = "parsed"
  /\ UNCHANGED <<input, treeVal, size, text, back, eager, eagerVal, procs, heap>>

\* res, err := exp.Eval()
CallEval ==
  /\ pc = "parsed"
  /\ IsNil(tree.err)
  /\ treeVal' = Eval(tree.e)
  /\ pc' = "evaluated"
  /\ UNCHANGED <<input, tree, size, text, back, eager, eagerVal, procs, heap>>

\* exp.Len()
CallLen ==
  /\ pc = "evaluated"
  /\ size' = ExprLen(tree.e)
  /\ pc' = "sized"
  /\ UNCHANGED <<input, tree, treeVal, text, back, eager, eagerVal, procs, heap>>

\* exp.String()
CallString ==
  /\ pc = "sized"
  /\ text' = String(tree.e)
  /\ pc' = "printed"
  /\ UNCHANGED <<input, tree, treeVal, size, back, eager, eagerVal, procs, heap>>

\* Parse(strings.NewReader(exp.String()))
CallReparse ==
  /\ pc = "printed"
  /\ back' = Parse(text)
  /\ pc' = "reparsed"
  /\ UNCHANGED <<input, tree, treeVal, size, text, eager, eagerVal, procs, heap>>

\* exp, err := EvalParse(reader), on a fresh reader of the same input
CallEvalParse ==
  /\ \/ pc = "reparsed"
     \/ pc = "parsed" /\ ~IsNil(tree.err)
  /\ eager' = EvalParse(input)
  /\ pc' = IF eager'.panic THEN "panicked" ELSE "eagerParsed"
  /\ UNCHANGED <<input, tree, treeVal, size, text, back, eagerVal, procs, heap>>

\* res, err := exp.Eval() on the expression EvalParse returned
CallEvalEager ==
  /\ pc = "eagerParsed"
  /\ IsNil(eager.err)
  /\ eagerVal' = Eval(eager.e)
  /\ pc' = "done"
  /\ UNCHANGED <<input, tree, treeVal, size, text, back, eager, procs, heap>>

Next ==
  \/ CallParse
  \/ CallEval
  \/ CallLen
  \/ CallString
  \/ CallReparse
  \/ CallEvalParse
  \/ CallEvalEager

Spec == Init /\ [][Next]_vars
SpecExpr == InitExpr /\ [][Next]_vars



(***************************************************************************)
(* The methods of a tree in any order: after Parse the caller calls Eval,  *)
(* Len and String on the tree it holds, each any number of times.  All     *)
(* three have value receivers and assign to no field.                      *)
(***************************************************************************)
Held == pc \in {"parsed", "used"} /\ IsNil(tree.err)

\* Eval rewriting the tree it is called on to the Literal of its value
UseEvalFolding ==
  /\ Held
  /\ treeVal' = Eval(tree.e)
  /\ tree' = [tree EXCEPT !.e = num(Eval(tree.e).v)]
  /\ pc' = "used"
  /\ UNCHANGED <<input, size, text, back, eager, eagerVal, procs, heap>>

\* exp.Eval()
UseEval ==
  /\ Held
  /\ treeVal' = Eval(tree.e)
  /\ pc' = "used"
  /\ UNCHANGED <<input, tree, size, text, back, eager, eagerVal, procs, heap>>

\* exp.Len()
UseLen ==
  /\ Held
  /\ size' = ExprLen(tree.e)
  /\ pc' = "used"
  /\ UNCHANGED <<input, tree, treeVal, text, back, eager, eagerVal, procs, heap>>

\* exp.String()
UseString ==
  /\ Held
  /\ text' = String(tree.e)
  /\ pc' = "used"
  /\ UNCHANGED <<input, tree, treeVal, size, back, eager, eagerVal, procs, heap>>

NextUse ==
  \/ CallParse
  \/ UseEval
  \/ UseLen
  \/ UseString

SpecUse == InitExpr /\ [][NextUse]_vars
\* longest expression inside the parentheses of the inputs with one group
\* (specification SpecGroup)
MaxGroupLen == 3

\* what stands between the inner expression and the rest: the closing
\* parenthesis, nothing, or a number before the closing parenthesis
Closings == {<<Sym(")")>>, <<>>, <<IntTok(1), Sym(")")>>}

\* inputs with a group as an operand: [2 op] ( expr closing [op 2]
GroupInputs ==
  {a \o <<Sym("(")>> \o x \o c \o b :
     a \in {<<>>} \cup {<<IntTok(2), Sym(o)>> : o \in Operators},
     x \in UNION {ExprsOfLen(n) : n \in 1..MaxGroupLen},
     c \in Closings,
     b \in {<<>>} \cup {<<Sym(o), IntTok(2)>> : o \in Operators}}
    \cup {Toks(<<"(", "1", "+", "2", ")", "*", "3">>),
          Toks(<<"8", "-", "(", "3", "-", "2", ")">>)}

InitGroup == InitWith(GroupInputs)
SpecGroup == InitGroup /\ [][Next]_vars
(***************************************************************************)
(* The same routines call by call.  A process is one call of Parse or of   *)
(* EvalParse: the stack of its active routines, the address of the lexer   *)
(* it allocated, and the (Expr, error) pair the routine that returned last *)
(* handed to its caller.  One step runs the routine on top of the stack up *)
(* to its next call or return.  heap holds the lexers, by address.         *)
(***************************************************************************)
\* longest token sequence of the call-by-call runs (specification SpecSteps)
MaxStepLen == 4
\* number of calls running at once (specification SpecConc)
NProcs == 2

Modes == {"tree", "eager"}

\* an activation record: the routine, where it resumes, and its locals
Frame(fn) ==
  [fn |-> fn, at |-> "start", prio0 |-> 0, prio |-> 0, left |-> NilExpr, op |-> ""]

NoReturn == [e |-> NilExpr, err |-> NoErr, from |-> ""]

NewProc(id, mode, r) ==
  [id |-> id, mode |-> mode, input |-> r, lex |-> 0,
   stack |-> <<Frame(IF mode = "tree" THEN "Parse" ELSE "EvalParse")>>,
   ret |-> NoReturn, status |-> "running",
   errStack |-> <<>>, errRaised |-> NoErr, errPos |-> 0, preempted |-> FALSE,
   steps |-> 0]

\* lex := new(lexer), with every call on the one lexer of address 1
newLexerShared(p) == 1

\* lex := new(lexer): an address no other call holds
newLexer(p) == p.id

Top(p) == p.stack[Len(p.stack)]
Callers(p) == SubSeq(p.stack, 1, Len(p.stack) - 1)

\* the routine on top, resuming at f.at later, calls callee
call(p, f, callee, lex) ==
  [p |-> [p EXCEPT !.stack = Callers(p) \o <<f, callee>>], lex |-> lex]

\* the routine on top returns (e, err); errStack, errRaised and errPos keep
\* the stack, the error and the lexer's position of the first return with
\* an error
return(p, e, err, lex) ==
  [p |-> [p EXCEPT
            !.stack = Callers(p),
            !.ret = [e |-> e, err |-> err, from |-> Top(p).fn],
            !.status = IF Callers(p) = <<>> THEN "returned" ELSE "running",
            !.errStack = IF ~IsNil(err) /\ IsNil(p.errRaised) THEN p.stack ELSE @,
            !.errRaised = IF ~IsNil(err) /\ IsNil(p.errRaised) THEN err ELSE @,
            !.errPos = IF ~IsNil(err) /\ IsNil(p.errRaised) THEN lex.pos ELSE @],
   lex |-> lex]

\* a nil dereference: the call never returns
panic(p, lex) == [p |-> [p EXCEPT !.status = "panicked"], lex |-> lex]

\* Parse replacing the error of parseExpr by its own
ParseStepDroppingCause(p, lex) ==
  LET f == Top(p)
      r == p.ret
  IN  IF f.at = "start"
      THEN call(p, [f EXCEPT !.at = "ret"], Frame("parseExpr"), next(NewLexer(p.input)))
      ELSE IF ~IsNil(r.err)
      THEN return(p, NilExpr, Errorf("could not parse", lexString(lex), NoErr), lex)
      ELSE IF lex.token.tok # "EOF"
      THEN return(p, NilExpr, Errorf("unexpected", lexString(lex), NoErr), lex)
      ELSE return(p, r.e, NoErr, lex)

ParseStep(p, lex) ==
  LET f == Top(p)
      r == p.ret
  IN  IF f.at = "start"
      THEN call(p, [f EXCEPT !.at = "ret"], Frame("parseExpr"), next(NewLexer(p.input)))
      ELSE IF ~IsNil(r.err)
      THEN return(p, NilExpr, Errorf("could not parse", lexString(lex), r.err), lex)
      ELSE IF lex.token.tok # "EOF"
      THEN return(p, NilExpr, Errorf("unexpected", lexString(lex), NoErr), lex)
      ELSE return(p, r.e, NoErr, lex)

parseExprStep(p, lex) ==
  LET f == Top(p)
  IN  IF f.at = "start"
      THEN call(p, [f EXCEPT !.at = "ret"], [Frame("parseBinary") EXCEPT !.prio0 = 1], lex)
      ELSE return(p, p.ret.e, p.ret.err, lex)

\* both loops of parseBinary, from the loop conditions on
RECURSIVE parseBinaryLoops(_, _, _)
parseBinaryLoops(p, f, lex) ==
  IF ~(f.prio >= f.prio0) THEN return(p, f.left, NoErr, lex)
  ELSE IF priority(lex.token) = f.prio
  THEN call(p, [f EXCEPT !.at = "gotRight", !.op = lex.token.tok],
            [Frame("parseBinary") EXCEPT !.prio0 = f.prio + 1], next(lex))
  ELSE parseBinaryLoops(p, [f EXCEPT !.prio = @ - 1], lex)

parseBinaryStep(p, lex) ==
  LET f == Top(p)
      r == p.ret
  IN  CASE f.at = "start" ->
             call(p, [f EXCEPT !.at = "gotLeft"], Frame("parseUnary"), lex)
        [] f.at = "gotLeft" ->
             IF ~IsNil(r.err)
             THEN return(p, NilExpr,
                         Errorf("could not parse expression in unary", lexString(lex), r.err), lex)
             ELSE parseBinaryLoops(p, [f EXCEPT !.left = r.e, !.prio = priority(lex.token)], lex)
        [] f.at = "gotRight" ->
             IF ~IsNil(r.err)
             THEN return(p, NilExpr,
                         Errorf("could not parse expression in unary", lexString(lex), r.err), lex)
             ELSE parseBinaryLoops(p, [f EXCEPT !.left = binary(f.op, f.left, r.e)], lex)

parseUnaryStep(p, lex) ==
  LET f == Top(p)
      r == p.ret
  IN  CASE f.at = "start" ->
             IF lex.token.tok = "+" \/ lex.token.tok = "-"
             THEN call(p, [f EXCEPT !.at = "gotOperand", !.op = lex.token.tok],
                       Frame("parseUnary"), next(lex))
             ELSE call(p, [f EXCEPT !.at = "gotPrimary"], Frame("parsePrimary"), lex)
        [] f.at = "gotOperand" ->
             IF ~IsNil(r.err)
             THEN return(p, NilExpr,
                         Errorf("could not parse expression in unary", lexString(lex), r.err), lex)
             ELSE return(p, unary(f.op, r.e), NoErr, lex)
        [] f.at = "gotPrimary" -> return(p, r.e, r.err, lex)

parsePrimaryStep(p, lex) ==
  LET f == Top(p)
      r == p.ret
  IN  CASE f.at = "start" ->
             CASE lex.token.tok \in {"Int", "Float"} ->
                    LET n == ParseFloat(lex.token)
                    IN  IF ~IsNil(n.err)
                        THEN return(p, NilExpr,
                                    Errorf("could not parse the float number", lexString(lex), n.err),
                                    lex)
                        ELSE return(p, num(n.f), NoErr, next(lex))
               [] lex.token.tok = "(" ->
                    call(p, [f EXCEPT !.at = "gotGroup"], Frame("parseExpr"), next(lex))
               [] OTHER -> return(p, NilExpr, Errorf("unexpected", lexString(lex), NoErr), lex)
        [] f.at = "gotGroup" ->
             IF ~IsNil(r.err)
             THEN return(p, NilExpr, Errorf("could not parse the symbol", lexString(lex), r.err), lex)
             ELSE IF lex.token.tok # ")"
             THEN return(p, NilExpr, Errorf("got, want ')'", lexString(lex), NoErr), lex)
             ELSE return(p, r.e, NoErr, next(lex))

EvalParseStep(p, lex) ==
  LET f == Top(p)
      r == p.ret
  IN  IF f.at = "start"
      THEN call(p, [f EXCEPT !.at = "ret"], Frame("evalparseExpr"), next(NewLexer(p.input)))
      ELSE IF ~IsNil(r.err)
      THEN return(p, NilExpr, Errorf("could not parse", lexString(lex), r.err), lex)
      ELSE IF lex.token.tok # "EOF"
      THEN return(p, NilExpr, Errorf("unexpected", lexString(lex), NoErr), lex)
      ELSE return(p, r.e, NoErr, lex)

evalparseExprStep(p, lex) ==
  LET f == Top(p)
  IN  IF f.at = "start"
      THEN call(p, [f EXCEPT !.at = "ret"], [Frame("evalparseBinary") EXCEPT !.prio0 = 1], lex)
      ELSE return(p, p.ret.e, p.ret.err, lex)

RECURSIVE evalparseBinaryLoops(_, _, _)
evalparseBinaryLoops(p, f, lex) ==
  IF ~(f.prio >= f.prio0) THEN return(p, num(Eval(f.left).v), NoErr, lex)
  ELSE IF priority(lex.token) = f.prio
  THEN call(p, [f EXCEPT !.at = "gotRight", !.op = lex.token.tok],
            [Frame("evalparseBinary") EXCEPT !.prio0 = f.prio + 1], next(lex))
  ELSE evalparseBinaryLoops(p, [f EXCEPT !.prio = @ - 1], lex)

evalparseBinaryStep(p, lex) ==
  LET f == Top(p)
      r == p.ret
  IN  CASE f.at = "start" ->
             call(p, [f EXCEPT !.at = "gotLeft"], Frame("evalparseUnary"), lex)
        [] f.at = "gotLeft" ->
             IF ~IsNil(r.err)
             THEN return(p, NilExpr,
                         Errorf("could not parse expression in unary", lexString(lex), r.err), lex)
             ELSE evalparseBinaryLoops(p, [f EXCEPT !.left = r.e, !.prio = priority(lex.token)], lex)
        [] f.at = "gotRight" ->
             IF ~IsNil(r.err)
             THEN return(p, NilExpr,
                         Errorf("could not parse expression in unary", lexString(lex), r.err), lex)
             ELSE evalparseBinaryLoops(
                    p, [f EXCEPT !.left = binary(f.op, num(Eval(f.left).v), r.e)], lex)

\* evalparseUnary keeping its operand as it got it (return unary{op, e}, nil)
evalparseUnaryStepNested(p, lex) ==
  LET f == Top(p)
      r == p.ret
  IN  CASE f.at = "start" ->
             IF lex.token.tok = "+" \/ lex.token.tok = "-"
             THEN call(p, [f EXCEPT !.at = "gotOperand", !.op = lex.token.tok],
                       Frame("evalparseUnary"), next(lex))
             ELSE call(p, [f EXCEPT !.at = "gotPrimary"], Frame("evalparsePrimary"), lex)
        [] f.at = "gotOperand" ->
             IF ~IsNil(r.err)
             THEN return(p, NilExpr,
                         Errorf("could not parse expression in unary", lexString(lex), r.err), lex)
             ELSE return(p, unary(f.op, r.e), NoErr, lex)
        [] f.at = "gotPrimary" -> return(p, r.e, r.err, lex)

evalparseUnaryStep(p, lex) ==
  LET f == Top(p)
      r == p.ret
  IN  CASE f.at = "start" ->
             IF lex.token.tok = "+" \/ lex.token.tok = "-"
             THEN call(p, [f EXCEPT !.at = "gotOperand", !.op = lex.token.tok],
                       Frame("evalparseUnary"), next(lex))
             ELSE call(p, [f EXCEPT !.at = "gotPrimary"], Frame("evalparsePrimary"), lex)
        [] f.at = "gotOperand" ->
             IF ~IsNil(r.err)
             THEN return(p, NilExpr,
                         Errorf("could not parse expression in unary", lexString(lex), r.err), lex)
             ELSE return(p, unary(f.op, num(Eval(r.e).v)), NoErr, lex)
        [] f.at = "gotPrimary" -> return(p, r.e, r.err, lex)

evalparsePrimaryStep(p, lex) ==
  LET f == Top(p)
      r == p.ret
  IN  CASE f.at = "start" ->
             CASE lex.token.tok \in {"Int", "Float"} ->
                    LET n == ParseFloat(lex.token)
                    IN  IF ~IsNil(n.err)
                        THEN return(p, NilExpr,
                                    Errorf("could not parse the float number", lexString(lex), n.err),
                                    lex)
                        ELSE return(p, num(n.f), NoErr, next(lex))
               [] lex.token.tok = "(" ->
                    call(p, [f EXCEPT !.at = "gotGroup"], Frame("evalparseExpr"), next(lex))
               [] OTHER -> return(p, NilExpr, Errorf("unexpected", lexString(lex), NoErr), lex)
        [] f.at = "gotGroup" ->
             \* eEval, _ := e.Eval() runs before err is looked at
             IF r.e.k = "nil" THEN panic(p, lex)
             ELSE IF ~IsNil(r.err)
             THEN return(p, NilExpr, Errorf("could not parse the symbol", lexString(lex), r.err), lex)
             ELSE IF lex.token.tok # ")"
             THEN return(p, NilExpr, Errorf("got, want ')'", lexString(lex), NoErr), lex)
             ELSE return(p, num(Eval(r.e).v), NoErr, next(lex))

\* one step of the routine on top of the stack of p, on the lexer lex
Step(p, lex) ==
  CASE Top(p).fn = "Parse" -> ParseStep(p, lex)
    [] Top(p).fn = "parseExpr" -> parseExprStep(p, lex)
    [] Top(p).fn = "parseBinary" -> parseBinaryStep(p, lex)
    [] Top(p).fn = "parseUnary" -> parseUnaryStep(p, lex)
    [] Top(p).fn = "parsePrimary" -> parsePrimaryStep(p, lex)
    [] Top(p).fn = "EvalParse" -> EvalParseStep(p, lex)
    [] Top(p).fn = "evalparseExpr" -> evalparseExprStep(p, lex)
    [] Top(p).fn = "evalparseBinary" -> evalparseBinaryStep(p, lex)
    [] Top(p).fn = "evalparseUnary" -> evalparseUnaryStep(p, lex)
    [] Top(p).fn = "evalparsePrimary" -> evalparsePrimaryStep(p, lex)

Entered(p) == Len(p.stack) = 1 /\ Top(p).at = "start"
InCall(p) == p.status = "running" /\ ~Entered(p)

\* process i runs one step, counted in steps; the calls it cuts into are
\* marked preempted
Run(i) ==
  /\ procs[i].status = "running"
  /\ LET p == procs[i]
         a == IF Entered(p) THEN newLexer(p) ELSE p.lex
         r == Step([p EXCEPT !.lex = a], heap[a])
     IN  /\ procs' = [j \in DOMAIN procs |->
                        IF j = i THEN [r.p EXCEPT !.steps = @ + 1]
                        ELSE IF InCall(procs[j]) THEN [procs[j] EXCEPT !.preempted = TRUE]
                        ELSE procs[j]]
         /\ heap' = [heap EXCEPT ![a] = r.lex]
  /\ UNCHANGED <<input, pc, tree, treeVal, size, text, back, eager, eagerVal>>

NextSteps == \E i \in DOMAIN procs : Run(i)

\* tokens of the call-by-call runs
StepAlphabet == {Sym("-"), Sym("*"), Sym("("), Sym(")"), IntTok(1), HexTok}

\* inputs of the concurrent calls
ConcInputs ==
  { <<Sym("-"), IntTok(1)>>,
    <<Sym("(")>> }

InitProcs(n, S) ==
  /\ input = <<>>
  /\ pc = "steps"
  /\ tree = NoResult
  /\ treeVal = NoValue
  /\ size = 0
  /\ text = <<>>
  /\ back = NoResult
  /\ eager = NoResult
  /\ eagerVal = NoValue
  /\ \E ms \in [1..n -> Modes], rs \in [1..n -> S] :
       procs = [i \in 1..n |-> NewProc(i, ms[i], rs[i])]
  /\ heap = [a \in 1..n |-> NewLexer(<<>>)]

InitSteps == InitProcs(1, SeqsUpTo(StepAlphabet, MaxStepLen))
InitConc == InitProcs(NProcs, ConcInputs)

SpecSteps == InitSteps /\ [][NextSteps]_vars
SpecConc == InitConc /\ [][NextSteps]_vars

\* what the call of process p returns when nothing else runs
RunAlone(p) == IF p.mode = "tree" THEN Parse(p.input) ELSE EvalParse(p.input)

(***************************************************************************)
(* Vocabulary of the properties                                            *)
(***************************************************************************)
Returned      == pc # "start"
Evaluated     == pc \in {"evaluated", "sized", "printed", "reparsed", "eagerParsed", "done"} /\ IsNil(tree.err)
EagerReturned == pc \in {"eagerParsed", "done"}
EagerCalled   == pc \in {"eagerParsed", "done", "panicked"}

RootCause(err) == err[Len(err)].msg
DivisionByZero(err) == ~IsNil(err) /\ RootCause(err) = "division by zero"
SameOutcome(a, b) == a.v = b.v /\ (IsNil(a.err) <=> IsNil(b.err))

TokAt(s, i) == IF i \in 1..Len(s) THEN s[i].tok ELSE "EOF"
IsNumber(t) == t.tok \in {"Int", "Float"}
Count(s, S) == Cardinality({i \in DOMAIN s : s[i].tok \in S})

\* some division of the tree has a divisor that evaluates to exactly zero
RECURSIVE ZeroDivisor(_)
ZeroDivisor(e) ==
  CASE e.k = "num" -> FALSE
    [] e.k = "unary" -> ZeroDivisor(e.x)
    [] e.k = "binary" ->
         \/ ZeroDivisor(e.x)
         \/ ZeroDivisor(e.y)
         \/ e.op = "/" /\ Eval(e.y) = [v |-> Zero, err |-> NoErr]

\* C1: for every input of the grammar, Parse then Eval and EvalParse then
\* Eval end in the same (value, error) outcome.
C1_ModesAgree ==
  pc = "done" => SameOutcome(treeVal, eagerVal)

\* C2: when some divisor of a grammar-valid input is exactly zero both modes
\* fail with a division-by-zero error, and when none is both modes succeed.
C2_DivisionByZeroInBothModes ==
  pc = "done" =>
    IF ZeroDivisor(tree.e)
    THEN DivisionByZero(treeVal.err) /\ DivisionByZero(eagerVal.err)
    ELSE IsNil(treeVal.err) /\ IsNil(eagerVal.err)

\* an operand is expected at position i of s: at the start, after an
\* operator or sign, and after an opening parenthesis
OperandExpected(s, i) == i = 1 \/ TokAt(s, i - 1) \in Operators \cup {"("}
MissingOperand(s) ==
  \E i \in 1..(Len(s) + 1) :
    OperandExpected(s, i) /\ TokAt(s, i) \in {"EOF", ")", "*", "/"}
Depth(s, i) == Count(SubSeq(s, 1, i), {"("}) - Count(SubSeq(s, 1, i), {")"})
UnmatchedParen(s) ==
  \/ Depth(s, Len(s)) # 0
  \/ \E i \in 1..Len(s) : Depth(s, i) < 0

\* C3: on an input with a missing operand or an unmatched parenthesis both
\* Parse and EvalParse return a non-nil error and no expression; neither
\* panics.
C3_MalformedInputIsAnErrorValue ==
  (EagerCalled /\ (MissingOperand(input) \/ UnmatchedParen(input))) =>
    /\ ~IsNil(tree.err) /\ tree.e.k = "nil"
    /\ ~eager.panic
    /\ ~IsNil(eager.err) /\ eager.e.k = "nil"

\* every literal of the input is a multiple of 1/100
ExactLiterals(s) == \A i \in DOMAIN s : IsNumber(s[i]) => Round2(s[i].text) = s[i].text

\* C4: the text String() renders for a tree Parse returned parses again, to
\* a tree that evaluates to the same outcome, for inputs with exact
\* two-decimal literals, parenthesised and signed groups included.
C4_StringRoundTrips ==
  (pc = "reparsed" /\ ExactLiterals(input)) =>
    IsNil(back.err) /\ SameOutcome(Eval(back.e), treeVal)

N(t) == num(t.text)
Value(n) == [v |-> <<n, 1>>, err |-> NoErr]

\* s is NUMBER op NUMBER op ... NUMBER with every op in ops
IsChain(s, ops) ==
  /\ Len(s) % 2 = 1
  /\ \A i \in DOMAIN s :
       IF i % 2 = 1 THEN s[i].tok = "Int" /\ ~s[i].hex ELSE s[i].tok \in ops

\* C5: "2*1+2" parses to (2*1)+2 and "2+1*2" to 2+(1*2), both evaluate to
\* 4, and in every a op b op c a '*' or '/' next to a '+' or '-' is grouped
\* first, on whichever side it stands.
C5_Precedence ==
  Returned =>
    /\ input = Toks(<<"2", "*", "1", "+", "2">>) =>
         /\ tree.e = binary("+", binary("*", num(<<2, 1>>), num(<<1, 1>>)), num(<<2, 1>>))
         /\ Evaluated => treeVal = Value(4)
    /\ input = Toks(<<"2", "+", "1", "*", "2">>) =>
         /\ tree.e = binary("+", num(<<2, 1>>), binary("*", num(<<1, 1>>), num(<<2, 1>>)))
         /\ Evaluated => treeVal = Value(4)
    /\ (Len(input) = 5 /\ IsChain(input, Operators)) =>
         /\ (input[2].tok \in {"*", "/"} /\ input[4].tok \in {"+", "-"}) =>
              tree.e = binary(input[4].tok,
                              binary(input[2].tok, N(input[1]), N(input[3])),
                              N(input[5]))
         /\ (input[2].tok \in {"+", "-"} /\ input[4].tok \in {"*", "/"}) =>
              tree.e = binary(input[2].tok,
                              N(input[1]),
                              binary(input[4].tok, N(input[3]), N(input[5])))

C5_Witness ==
  /\ pc = "evaluated"
  /\ input = Toks(<<"2", "+", "1", "*", "2">>)
  /\ tree.e.op = "+" /\ tree.e.y.k = "binary"
  /\ treeVal = Value(4)

\* the left-nested tree of the first n tokens of a chain
RECURSIVE LeftNested(_, _)
LeftNested(s, n) ==
  IF n = 1 THEN N(s[1])
  ELSE binary(s[n - 1].tok, LeftNested(s, n - 2), N(s[n]))

\* C6: a chain of operators of one priority level parses to the left-nested
\* tree ((a op b) op c) op d; "1+2+3+4" is ((1+2)+3)+4 and evaluates to 10.
C6_LeftAssociative ==
  Returned =>
    /\ (IsChain(input, {"+", "-"}) \/ IsChain(input, {"*", "/"})) =>
         IsNil(tree.err) /\ tree.e = LeftNested(input, Len(input))
    /\ (input = Toks(<<"1", "+", "2", "+", "3", "+", "4">>) /\ Evaluated) =>
         treeVal = Value(10)

C6_Witness ==
  /\ pc = "evaluated"
  /\ input = Toks(<<"1", "+", "2", "+", "3", "+", "4">>)
  /\ tree.e.x.x.k = "binary" /\ tree.e.y.k = "num"
  /\ treeVal = Value(10)

Sized == pc \in {"sized", "printed", "reparsed", "eagerParsed", "done"} /\ IsNil(tree.err)

\* C7: Len() of the tree of a successful Parse is the number of number
\* tokens plus the number of operator and sign tokens of the input;
\* parentheses add nothing.
C7_LenCountsNumbersAndOperators ==
  Sized => size = Count(input, {"Int", "Float"}) + Count(input, Operators)

C7_Witness ==
  /\ pc = "sized"
  /\ Count(input, {"("}) = 1
  /\ TokAt(input, 1) \in Signs
  /\ size = 4

\* the number of sign tokens s starts with
RECURSIVE LeadingSigns(_)
LeadingSigns(s) ==
  IF s # <<>> /\ s[1].tok \in Signs THEN 1 + LeadingSigns(Tail(s)) ELSE 0

\* s is one operand: a number, or a group closed by its last token
IsOperand(s) ==
  \/ Len(s) = 1 /\ IsNumber(s[1]) /\ ~s[1].hex
  \/ /\ Len(s) >= 3
     /\ s[1].tok = "("
     /\ Depth(s, Len(s)) = 0
     /\ \A i \in 1..(Len(s) - 1) : Depth(s, i) > 0

\* signs[1..n] applied to e, the innermost sign last
RECURSIVE SignsApplied(_, _, _)
SignsApplied(s, i, e) ==
  IF i > LeadingSigns(s) THEN e ELSE unary(s[i].tok, SignsApplied(s, i + 1, e))

\* v negated once for each '-' among the first n tokens of s
NegatedPerMinus(s, n, v) ==
  IF Count(SubSeq(s, 1, n), {"-"}) % 2 = 1 THEN RNeg(v) ELSE v

\* C8: leading signs before an operand parse as nested sign application and
\* the value is the operand's, negated once per '-'; "--3" evaluates to 3
\* and "-+3" to -3, in both modes.
C8_UnaryChaining ==
  LET k == LeadingSigns(input)
      operand == Parse(SubSeq(input, k + 1, Len(input)))
      value == Eval(operand.e)
      expected == [v |-> NegatedPerMinus(input, k, value.v), err |-> NoErr]
  IN
  /\ (Returned /\ k >= 1 /\ IsOperand(SubSeq(input, k + 1, Len(input)))) =>
       /\ IsNil(tree.err) /\ tree.e = SignsApplied(input, 1, operand.e)
       /\ pc # "panicked"
       /\ (Evaluated /\ IsNil(value.err)) => treeVal = expected
       /\ (pc = "done" /\ IsNil(value.err)) => eagerVal = expected
  /\ input = Toks(<<"-", "-", "3">>) =>
       /\ Evaluated => treeVal = Value(3)
       /\ pc = "done" => eagerVal = Value(3)
  /\ input = Toks(<<"-", "+", "3">>) =>
       /\ Evaluated => treeVal = Value(-3)
       /\ pc = "done" => eagerVal = Value(-3)

C8_Witness ==
  /\ pc = "done"
  /\ input = Toks(<<"-", "+", "3">>)
  /\ tree.e = unary("-", unary("+", num(<<3, 1>>)))
  /\ treeVal = Value(-3)
  /\ eagerVal = Value(-3)

SyntaxErrorAtEOF(r) ==
  /\ ~r.panic
  /\ r.e.k = "nil"
  /\ ~IsNil(r.err)
  /\ r.err[Len(r.err)] = [msg |-> "unexpected", at |-> "end of file"]

\* C9: on empty input both Parse and EvalParse return a syntax error (an
\* unexpected end of file) and no expression.
C9_EmptyInputIsASyntaxError ==
  input = <<>> =>
    /\ Returned => SyntaxErrorAtEOF(tree)
    /\ EagerCalled => SyntaxErrorAtEOF(eager)
    /\ pc \notin {"evaluated", "done"}

C9_Witness ==
  /\ input = <<>>
  /\ pc = "eagerParsed"
  /\ ~IsNil(tree.err)
  /\ ~IsNil(eager.err)

\* s is a sentence of  expr := expr OP expr | SIGN expr | NUMBER | '(' expr ')'
RECURSIVE InLanguage(_)
InLanguage(s) ==
  \/ Len(s) = 1 /\ IsNumber(s[1]) /\ ~s[1].hex
  \/ Len(s) >= 2 /\ s[1].tok \in Signs /\ InLanguage(Tail(s))
  \/ /\ Len(s) >= 3
     /\ s[1].tok = "(" /\ s[Len(s)].tok = ")"
     /\ InLanguage(SubSeq(s, 2, Len(s) - 1))
  \/ \E i \in 2..(Len(s) - 1) :
       /\ s[i].tok \in Operators
       /\ InLanguage(SubSeq(s, 1, i - 1))
       /\ InLanguage(SubSeq(s, i + 1, Len(s)))

\* a complete expression followed by a token that cannot continue it
TrailingToken(s) ==
  \E n \in 1..(Len(s) - 1) :
    InLanguage(SubSeq(s, 1, n)) /\ TokAt(s, n + 1) \notin Operators

ConsumedAll(r) ==
  /\ r.lex.token = EOF
  /\ r.lex.pos = Len(input) + 1
  /\ InLanguage(input)

\* C10: Parse and EvalParse succeed only with the lookahead at end of input
\* after one complete expression; a token left over after a complete
\* expression makes both return an error.
C10_SuccessOnlyAtEndOfInput ==
  /\ (Returned /\ IsNil(tree.err)) => ConsumedAll(tree)
  /\ (EagerReturned /\ IsNil(eager.err)) => ConsumedAll(eager)
  /\ TrailingToken(input) =>
       /\ Returned => tree.e.k = "nil" /\ Len(tree.err) = 1 /\ tree.err[1].msg = "unexpected"
       /\ EagerCalled =>
            ~eager.panic /\ eager.e.k = "nil"
              /\ Len(eager.err) = 1 /\ eager.err[1].msg = "unexpected"

C10_Witness ==
  /\ pc = "eagerParsed"
  /\ input = <<IntTok(1), Sym(")")>>
  /\ tree.lex.token = Sym(")")
  /\ ~IsNil(tree.err)
  /\ ~IsNil(eager.err)

\* C11: whenever EvalParse succeeds the expression it returns is a single
\* Literal, of Len() 1, and Eval of it succeeds with a nil error.
C11_EagerReturnsOneLiteral ==
  /\ (EagerReturned /\ IsNil(eager.err)) =>
       /\ eager.e.k = "num"
       /\ ExprLen(eager.e) = 1
       /\ Eval(eager.e) = [v |-> eager.e.f, err |-> NoErr]
  /\ pc = "done" => IsNil(eagerVal.err) /\ eagerVal.v = eager.e.f

C11_Witness ==
  /\ pc = "done"
  /\ Len(input) = 5
  /\ Count(input, {"*"}) = 1 /\ Count(input, {"-"}) = 1
  /\ eager.e = num(<<-1, 1>>)
  /\ eagerVal = Value(-1)

\* no message of the chain err speaks of evaluation
NoEvalError(err) ==
  \A i \in DOMAIN err :
    err[i].msg \notin {"division by zero", "unsupported unary operator",
                       "unsupported binary operator"}

\* C12: Parse does not evaluate: on every input of the grammar, also one
\* whose evaluation fails such as "1/0", it returns a tree and a nil error,
\* and the evaluation error comes from the later Eval only.
C12_ParseDoesNotEvaluate ==
  /\ Returned => IsNil(tree.err) /\ tree.e.k # "nil" /\ NoEvalError(tree.err)
  /\ pc = "parsed" => treeVal = NoValue
  /\ (Evaluated /\ ZeroDivisor(tree.e)) => DivisionByZero(treeVal.err)

C12_Witness ==
  /\ pc = "evaluated"
  /\ input = Toks(<<"1", "/", "0">>)
  /\ tree.e = binary("/", num(<<1, 1>>), num(Zero))
  /\ IsNil(tree.err)
  /\ DivisionByZero(treeVal.err)

\* the call of process i is over: it returned or it panicked
Over(i) == procs[i].status # "running"

\* the outcome of the call of process i, as a result of the routine
Outcome(i) ==
  [e |-> procs[i].ret.e, err |-> procs[i].ret.err,
   lex |-> heap[procs[i].lex], panic |-> procs[i].status = "panicked"]

\* C13: calls of Parse and EvalParse running at once on their own inputs,
\* their steps interleaved in any order, each end as they end run alone,
\* with the lexer where it stops when run alone.
C13_ConcurrentCallsDoNotInterfere ==
  \A i \in DOMAIN procs :
    Over(i) =>
      LET alone == RunAlone(procs[i])
      IN  /\ Outcome(i).panic = alone.panic
          /\ Outcome(i).lex = alone.lex
          /\ ~alone.panic => Outcome(i).e = alone.e /\ Outcome(i).err = alone.err

C13_Witness ==
  /\ DOMAIN procs = 1..NProcs
  /\ \A i \in DOMAIN procs : Over(i) /\ procs[i].preempted
  /\ procs[1].input # procs[2].input
  /\ procs[1].mode = "tree" /\ procs[1].ret.e.k = "unary"
  /\ procs[2].mode = "eager" /\ procs[2].status = "panicked"

\* C14: eager mode propagates errors as tree mode does: on every input
\* EvalParse returns a syntax error exactly when Parse returns one, with
\* the lexer stopped at the same token.
C14_EagerErrorsAsTreeErrors ==
  EagerCalled =>
    /\ ~eager.panic
    /\ IsNil(eager.err) <=> IsNil(tree.err)
    /\ eager.lex.token = tree.lex.token /\ eager.lex.pos = tree.lex.pos

\* the value of e with every subexpression that fails to evaluate taken as 0
RECURSIVE ZeroOnError(_)
ZeroOnError(e) ==
  CASE e.k = "num" -> e.f
    [] e.k = "unary" -> IF e.op = "-" THEN RNeg(ZeroOnError(e.x)) ELSE ZeroOnError(e.x)
    [] e.k = "binary" ->
         LET x == ZeroOnError(e.x)
             y == ZeroOnError(e.y)
         IN  CASE e.op = "+" -> RAdd(x, y)
               [] e.op = "-" -> RSub(x, y)
               [] e.op = "*" -> RMul(x, y)
               [] e.op = "/" -> IF y = Zero THEN Zero ELSE RDiv(x, y)

EagerHandedOver(i, fn) ==
  /\ procs[i].mode = "eager"
  /\ procs[i].ret.from = fn
  /\ IsNil(procs[i].ret.err)

IsLiteral(e) == e.k = "num"

\* C16 as stated: evalparseBinary, evalparseUnary and evalparsePrimary each
\* hand their caller a Literal, so no expression of more than one node
\* survives a return.
C16_EveryEagerRoutineReturnsALiteral ==
  \A i \in DOMAIN procs :
    \A fn \in {"evalparseBinary", "evalparseUnary", "evalparsePrimary"} :
      EagerHandedOver(i, fn) =>
        /\ IsLiteral(procs[i].ret.e)
        /\ ExprLen(procs[i].ret.e) = 1

\* C16 amended: evalparseBinary, evalparsePrimary, evalparseExpr and
\* EvalParse hand their caller a Literal; evalparseUnary hands over a
\* Literal when it consumed no sign and otherwise a Unary node over a
\* Literal (two nodes), which the evalparseBinary that called for it
\* collapses before it returns.
C16_EagerReturnsLiteralOrSignedLiteral ==
  \A i \in DOMAIN procs :
    /\ \A fn \in {"evalparseBinary", "evalparsePrimary", "evalparseExpr", "EvalParse"} :
         EagerHandedOver(i, fn) => IsLiteral(procs[i].ret.e)
    /\ EagerHandedOver(i, "evalparseUnary") =>
         \/ IsLiteral(procs[i].ret.e)
         \/ /\ procs[i].ret.e.k = "unary"
            /\ procs[i].ret.e.op \in {"+", "-"}
            /\ IsLiteral(procs[i].ret.e.x)
    /\ procs[i].mode = "eager" /\ procs[i].status = "returned" /\ IsNil(procs[i].ret.err) =>
         IsLiteral(procs[i].ret.e)

C16_Witness ==
  /\ procs[1].mode = "eager"
  /\ procs[1].input = <<Sym("-"), Sym("-"), IntTok(1)>>
  /\ procs[1].status = "running"
  /\ Len(procs[1].stack) = 3
  /\ EagerHandedOver(1, "evalparseUnary")
  /\ procs[1].ret.e = unary("-", num(<<-1, 1>>))

\* every Binary node of e has one of + - * / and every Unary node + or -
RECURSIVE WellFormedOps(_)
WellFormedOps(e) ==
  CASE e.k = "num" -> TRUE
    [] e.k = "unary" -> e.op \in {"+", "-"} /\ WellFormedOps(e.x)
    [] e.k = "binary" -> e.op \in {"+", "-", "*", "/"} /\ WellFormedOps(e.x) /\ WellFormedOps(e.y)
    [] OTHER -> FALSE

\* the messages of an evaluation error whose root cause is a division by zero
EvalFailureByZero(err) ==
  /\ DivisionByZero(err)
  /\ \A k \in 1..(Len(err) - 1) :
       err[k].msg \in {"evaluation of operand x in unary failed",
                       "evaluation of operand x in binary failed",
                       "evaluation of operand y in binary failed"}

\* C17: in every tree returned by Parse each Binary node's operator is one
\* of + - * / and each Unary node's is + or -, so Eval of such a tree never
\* reports an unsupported operator: it fails only with division by zero.
C17_OperatorsAreTheGrammars ==
  /\ Returned /\ IsNil(tree.err) => WellFormedOps(tree.e)
  /\ Evaluated => IsNil(treeVal.err) \/ EvalFailureByZero(treeVal.err)

C17_Witness ==
  /\ pc = "evaluated"
  /\ tree.e = binary("-", unary("-", num(<<1, 1>>)), binary("/", num(<<1, 1>>), num(Zero)))
  /\ EvalFailureByZero(treeVal.err)
  /\ Len(treeVal.err) = 2

\* (non-nil expression, nil error) or (nil expression, non-nil error)
ExpressionOrError(r) ==
  \/ r.e # NilExpr /\ IsNil(r.err)
  \/ r.e = NilExpr /\ ~IsNil(r.err)

\* from the first error on: no token is consumed and no expression is
\* handed to a caller
StoppedAtViolation(i) ==
  ~IsNil(procs[i].errRaised) =>
    /\ heap[procs[i].lex].pos = procs[i].errPos
    /\ procs[i].ret.e = NilExpr
    /\ ~IsNil(procs[i].ret.err)

\* C18: Parse and EvalParse return exactly one of (non-nil expression, nil
\* error) and (nil expression, non-nil error); after the first grammar
\* violation no further token is consumed, no node built so far is returned
\* and no default value is substituted.
C18_ExpressionOrErrorNeverBoth ==
  \A i \in DOMAIN procs :
    /\ procs[i].status # "panicked"
    /\ procs[i].status = "returned" => ExpressionOrError(procs[i].ret)
    /\ StoppedAtViolation(i)

\* process i is a Parse call that returned an error
ParseFailed(i) ==
  /\ procs[i].mode = "tree"
  /\ procs[i].status = "returned"
  /\ ~IsNil(procs[i].ret.err)

\* the wrappers the callers put around the error as it was raised
Wrappers(i) == Len(procs[i].ret.err) - Len(procs[i].errRaised)

\* the callers the error passed through: the frames under the one that raised it
PassedThrough(i) == SubSeq(procs[i].errStack, 1, Len(procs[i].errStack) - 1)

\* the error as raised is the innermost part of the error returned
RootCauseKept(i) ==
  /\ Wrappers(i) >= 0
  /\ SubSeq(procs[i].ret.err, Wrappers(i) + 1, Len(procs[i].ret.err)) = procs[i].errRaised

\* every wrapper describes the token the lexer stands on
WrappersDescribeToken(i) ==
  \A k \in 1..Wrappers(i) : procs[i].ret.err[k].at = lexString(heap[procs[i].lex])

\* a frame whose return statement wraps the error of the call it waits for:
\* Parse, parseBinary, parseUnary after a sign, parsePrimary after '('
WrapsError(f) ==
  \/ f.fn \in {"Parse", "parseBinary"}
  \/ f.fn = "parseUnary" /\ f.at = "gotOperand"
  \/ f.fn = "parsePrimary" /\ f.at = "gotGroup"

WrappingFrames(s) == Cardinality({k \in DOMAIN s : WrapsError(s[k])})

\* C19 as stated: a parse error is wrapped at each frame it passes through
\* (Parse, parseExpr, parseBinary, parseUnary, parsePrimary) with a
\* description of the lexer's current token, the root cause stays innermost,
\* and the number of wrappers equals the recursion depth at which the error
\* arose.
C19_OneWrapperPerFrame ==
  \A i \in DOMAIN procs :
    ParseFailed(i) =>
      /\ RootCauseKept(i)
      /\ WrappersDescribeToken(i)
      /\ Wrappers(i) = Len(PassedThrough(i))

\* C19 amended: a parse error is wrapped, with a description of the lexer's
\* current token, by Parse, by parseBinary, by a parseUnary that consumed a
\* sign and by a parsePrimary that consumed '('; parseExpr and a parseUnary
\* without a sign pass it on unchanged.  The root cause stays innermost and
\* the number of wrappers equals the number of those wrapping frames under
\* the frame that raised the error.
C19_WrappedByWrappingFrames ==
  \A i \in DOMAIN procs :
    ParseFailed(i) =>
      /\ RootCauseKept(i)
      /\ WrappersDescribeToken(i)
      /\ Wrappers(i) = WrappingFrames(PassedThrough(i))
      /\ Wrappers(i) <= Len(PassedThrough(i))

C19_Witness ==
  /\ ParseFailed(1)
  /\ procs[1].input = <<Sym("-"), Sym("(")>>
  /\ Len(procs[1].errStack) = 10
  /\ Wrappers(1) = 5
  /\ procs[1].errRaised = Errorf("unexpected", "end of file", NoErr)

\* the nodes of e
RECURSIVE Nodes(_)
Nodes(e) ==
  CASE e.k = "num" -> {e}
    [] e.k = "unary" -> {e} \cup Nodes(e.x)
    [] e.k = "binary" -> {e} \cup Nodes(e.x) \cup Nodes(e.y)

Fails(e) == ~IsNil(Eval(e).err)

\* what binary.Eval returns when its left operand fails
LeftFailure(b) ==
  [v |-> Zero, err |-> Errorf("evaluation of operand x in binary failed", "", Eval(b.x).err)]

\* C20: Binary.Eval evaluates the left operand first and, if that fails,
\* returns its error whatever the right operand is; when both operands
\* would fail the error returned is the left operand's; on any error the
\* value returned is 0.
C20_BinaryEvalLeftFirst ==
  /\ Evaluated /\ tree.e.k = "binary" /\ Fails(tree.e.x) => treeVal = LeftFailure(tree.e)
  /\ Evaluated =>
       \A b \in Nodes(tree.e) :
         b.k = "binary" =>
           /\ Fails(b.x) => Eval(b) = LeftFailure(b)
           /\ Fails(b) => Eval(b).v = Zero
           /\ Fails(b) /\ ~Fails(b.x) /\ Fails(b.y) =>
                Eval(b).err = Errorf("evaluation of operand y in binary failed", "", Eval(b.y).err)

C20_Witness ==
  /\ pc = "evaluated"
  /\ input = Toks(<<"1", "/", "0", "+", "1", "/", "0">>)
  /\ Fails(tree.e.x) /\ Fails(tree.e.y)
  /\ treeVal.v = Zero
  /\ treeVal.err = Errorf("evaluation of operand x in binary failed", "",
                          Errorf("division by zero", "", NoErr))

\* the index of the token that closes the parenthesis opened at s[i], 0 if
\* none does (d: the parentheses open before s[i])
RECURSIVE MatchingParen(_, _, _)
MatchingParen(s, i, d) ==
  IF i > Len(s) THEN 0
  ELSE LET d2 == CASE s[i].tok = "(" -> d + 1
                   [] s[i].tok = ")" -> d - 1
                   [] OTHER -> d
       IN  IF d2 = 0 THEN i ELSE MatchingParen(s, i + 1, d2)

\* the first '(' of s
RECURSIVE FirstParen(_, _)
FirstParen(s, i) ==
  IF i > Len(s) THEN 0 ELSE IF s[i].tok = "(" THEN i ELSE FirstParen(s, i + 1)

\* the tree of  [l op] g [op r]  with the tree g standing as one operand
AsOperand(a, g, b) ==
  CASE a = <<>> /\ b = <<>> -> g
    [] a = <<>> /\ b # <<>> -> binary(b[1].tok, g, N(b[2]))
    [] a # <<>> /\ b = <<>> -> binary(a[2].tok, N(a[1]), g)
    [] OTHER ->
         IF b[1].tok \in {"*", "/"} /\ a[2].tok \in {"+", "-"}
         THEN binary(a[2].tok, N(a[1]), binary(b[1].tok, g, N(b[2])))
         ELSE binary(b[1].tok, binary(a[2].tok, N(a[1]), g), N(b[2]))

\* C21: a parenthesised subexpression is parsed as one operand and adds no
\* node of its own: "(1+2)*3" has '*' at the root and the '+' node as left
\* child, "8-(3-2)" has the inner '-' node as right child; and a group is
\* accepted only if its ')' is the token right after the inner expression.
C21_GroupIsOneOperand ==
  Returned =>
    LET o == FirstParen(input, 1)
        c == MatchingParen(input, o, 0)
        inner == SubSeq(input, o + 1, c - 1)
    IN  /\ IsNil(tree.err) <=> (c # 0 /\ InLanguage(inner))
        /\ IsNil(tree.err) =>
             /\ tree.e = AsOperand(SubSeq(input, 1, o - 1), Parse(inner).e,
                                   SubSeq(input, c + 1, Len(input)))
             /\ ExprLen(tree.e) = Len(input) - Count(input, {"(", ")"})
        /\ ~IsNil(tree.err) => tree.e = NilExpr /\ RootCause(tree.err) = "got, want ')'"
        /\ input = Toks(<<"(", "1", "+", "2", ")", "*", "3">>) =>
             tree.e = binary("*", binary("+", num(<<1, 1>>), num(<<2, 1>>)), num(<<3, 1>>))
        /\ input = Toks(<<"8", "-", "(", "3", "-", "2", ")">>) =>
             tree.e = binary("-", num(<<8, 1>>), binary("-", num(<<3, 1>>), num(<<2, 1>>)))

C21_Witness ==
  /\ pc = "parsed"
  /\ input = Toks(<<"2", "-", "(", "1", "-", "2", ")", "*", "2">>)
  /\ tree.e = binary("-", num(<<2, 1>>),
                     binary("*", binary("-", num(<<1, 1>>), num(<<2, 1>>)), num(<<2, 1>>)))

\* the lexer of the call of process i
Lexer(i) == heap[newLexer(procs[i])]

IsBinaryFrame(f) == f.fn \in {"parseBinary", "evalparseBinary"}

\* the steps a call on n tokens takes at most: nine routine steps to get
\* through the descent once, for each token and for the end of the input
StepBound(n) == 9 * (n + 1)

\* the call of process i is over with (Expr, error), or goes on, and has
\* not run for longer than its input allows
Terminates(i) ==
  /\ procs[i].status \in {"running", "returned"}
  /\ procs[i].steps <= StepBound(Len(procs[i].input))
  /\ Lexer(i).pos <= Len(procs[i].input) + 1

\* parseBinary runs with a minimum priority of 1, 2 or 3 and takes as
\* operator only a token of priority 1 or 2
PrioritiesInRange(i) ==
  \A k \in DOMAIN procs[i].stack :
    LET f == procs[i].stack[k]
    IN  IsBinaryFrame(f) =>
          /\ f.prio0 \in {1, 2, 3}
          /\ f.at = "gotRight" => f.op \in Operators

\* the step process i is about to take runs an iteration of the outer loop
\* of parseBinary in which the inner loop finds no operator of its priority
IdleIteration(i) ==
  LET f == Top(procs[i])
  IN  /\ procs[i].status = "running"
      /\ IsBinaryFrame(f)
      /\ f.at = "gotRight"
      /\ IsNil(procs[i].ret.err)
      /\ priority(Lexer(i).token) # f.prio
      /\ f.prio - 1 >= f.prio0
      /\ priority(Lexer(i).token) # f.prio - 1

\* process i steps from parseBinary into the call for a right operand
OperatorTaken(i) ==
  /\ IsBinaryFrame(Top(procs[i]))
  /\ Len(procs'[i].stack) = Len(procs[i].stack) + 1
  /\ procs'[i].stack[Len(procs[i].stack)].at = "gotRight"

\* C22: every Parse or EvalParse call on a finite input terminates with a
\* result or an error: the lexer position never decreases, every iteration
\* of the operator loops of parseBinary consumes at least one token, and
\* parseBinary is only entered with a minimum priority of 1, 2 or 3, so a
\* token of priority 0 is never consumed as an operator.
C22_CallsTerminate ==
  /\ [](\A i \in DOMAIN procs : Terminates(i) /\ PrioritiesInRange(i))
  /\ [][\A i \in DOMAIN procs :
          /\ heap'[i].pos >= heap[i].pos
          /\ OperatorTaken(i) => heap'[i].pos > heap[i].pos
          /\ procs'[i] # procs[i] => ~IdleIteration(i)]_vars

\* Eval has been called on the tree held: only Eval assigns treeVal
EvalCalled == pc = "used" /\ treeVal # NoValue

\* C23: a tree returned by Parse is immutable: the fold left = binary{op,
\* left, right} of parseBinary leaves the node it folds as it was, as the
\* left child of the new node; after any sequence of Eval, String and Len
\* calls the tree is the one Parse returned, and an Eval called again
\* returns the same (value, error).
C23_TreeIsImmutable ==
  /\ [](Held /\ Len(input) >= 3
          /\ (IsChain(input, {"+", "-"}) \/ IsChain(input, {"*", "/"})) =>
            tree.e.x = Parse(SubSeq(input, 1, Len(input) - 2)).e)
  /\ [](Held => tree = Parse(input))
  /\ [](EvalCalled => treeVal = Eval(tree.e))
  /\ [][pc # "start" => tree' = tree]_vars
  /\ [][EvalCalled => treeVal' = treeVal]_vars

C23_Witness ==
  /\ EvalCalled
  /\ size = 5
  /\ text # <<>>
  /\ tree.e.k = "binary" /\ tree.e.x.k = "binary"
  /\ DivisionByZero(treeVal.err)

ParenFree(s) == Count(s, {"(", ")"}) = 0

IsBinary(e) == e.k = "binary"
Multiplicative(e) == IsBinary(e) /\ e.op \in {"*", "/"}
Additive(e) == IsBinary(e) /\ e.op \in {"+", "-"}

\* C24: for parenthesis-free input, in the tree Parse returns no '*' or '/'
\* node has a '+' or '-' Binary node as a child, and no Binary node has as
\* its right child a Binary node of the same priority.
C24_ShapeOfParenFreeTrees ==
  (Returned /\ IsNil(tree.err) /\ ParenFree(input)) =>
    \A b \in Nodes(tree.e) :
      /\ Multiplicative(b) => ~Additive(b.x) /\ ~Additive(b.y)
      /\ Multiplicative(b) => ~Multiplicative(b.y)
      /\ Additive(b) => ~Additive(b.y)

C24_Witness ==
  /\ pc = "parsed"
  /\ input = Toks(<<"-", "1", "-", "2", "*", "1">>)
  /\ ParenFree(input)
  /\ tree.e = binary("-", unary("-", num(<<1, 1>>)), binary("*", num(<<2, 1>>), num(<<1, 1>>)))

\* the Unary nodes of e whose operand is a Binary node
SignedBinaries(e) == {u \in Nodes(e) : u.k = "unary" /\ IsBinary(u.x)}

\* the signs of s that stand before a group, directly or before more signs
SignsBeforeGroup(s) ==
  {i \in DOMAIN s :
     /\ s[i].tok \in Signs
     /\ TokAt(s, i + 1 + LeadingSigns(SubSeq(s, i + 1, Len(s)))) = "("}

\* C25: a sign binds tighter than every binary operator: the operand of a
\* Unary node of a tree Parse returns is a Literal, another Unary node or
\* the tree of a parenthesised group, never an unparenthesised Binary node
\* (sign a op b is (sign a) op b), and a sign is accepted directly after a
\* binary operator (a op sign b).
C25_SignBindsTightest ==
  (Returned /\ IsNil(tree.err)) =>
    /\ ParenFree(input) => SignedBinaries(tree.e) = {}
    /\ SignedBinaries(tree.e) # {} => SignsBeforeGroup(input) # {}
    /\ (Len(input) = 4 /\ input[1].tok \in Signs /\ IsChain(Tail(input), Operators)) =>
         tree.e = binary(input[3].tok, unary(input[1].tok, N(input[2])), N(input[4]))
    /\ (Len(input) = 4 /\ input[3].tok \in Signs
          /\ IsChain(<<input[1], input[2], input[4]>>, Operators)) =>
         tree.e = binary(input[2].tok, N(input[1]), unary(input[3].tok, N(input[4])))

C25_Witness ==
  /\ pc = "parsed"
  /\ input = Toks(<<"2", "-", "-", "1", "*", "2">>)
  /\ tree.e = binary("-", num(<<2, 1>>),
                     binary("*", unary("-", num(<<1, 1>>)), num(<<2, 1>>)))

Number(f) == [k |-> "number", f |-> f, op |-> ""]
Operator(c) == [k |-> "operator", f |-> Zero, op |-> c]

\* the Literals and operators of e read left to right
RECURSIVE InOrder(_)
InOrder(e) ==
  CASE e.k = "num" -> <<Number(e.f)>>
    [] e.k = "unary" -> <<Operator(e.op)>> \o InOrder(e.x)
    [] e.k = "binary" -> InOrder(e.x) \o <<Operator(e.op)>> \o InOrder(e.y)

IsParen(t) == t.tok \in {"(", ")"}

\* the number, sign and operator tokens of s in input order
RECURSIVE TokensRead(_)
TokensRead(s) ==
  IF s = <<>> THEN <<>>
  ELSE IF IsParen(s[1]) THEN TokensRead(Tail(s))
  ELSE <<IF IsNumber(s[1]) THEN Number(s[1].text) ELSE Operator(s[1].tok)>>
         \o TokensRead(Tail(s))

RECURSIVE Only(_, _)
Only(s, kind) ==
  IF s = <<>> THEN <<>>
  ELSE IF s[1].k = kind THEN <<s[1]>> \o Only(Tail(s), kind)
  ELSE Only(Tail(s), kind)

\* C26: for every successful Parse the Literals of the tree read left to
\* right are exactly the number tokens of the input in input order, and the
\* operators of its Unary and Binary nodes are exactly the sign and operator
\* tokens of the input: no token is dropped, duplicated or reordered.
C26_TreeKeepsTheTokens ==
  (Returned /\ IsNil(tree.err)) =>
    /\ Only(InOrder(tree.e), "number") = Only(TokensRead(input), "number")
    /\ Only(InOrder(tree.e), "operator") = Only(TokensRead(input), "operator")
    /\ InOrder(tree.e) = TokensRead(input)

C26_Witness ==
  /\ pc = "parsed"
  /\ input = Toks(<<"8", "-", "(", "3", "-", "2", ")">>)
  /\ InOrder(tree.e) = <<Number(<<8, 1>>), Operator("-"), Number(<<3, 1>>),
                         Operator("-"), Number(<<2, 1>>)>>

====
